---- MODULE Spec2Model ----
(***************************************************************************)
(* Model of the event-sourced URL shortener of src/task.rs:                *)
(* UrlShortenerService keeps one Vec<Event>; every command replays the     *)
(* whole log, checks its precondition and pushes one event; get_stats      *)
(* replays the log and reads the stats.                                    *)
(***************************************************************************)
EXTENDS Integers, Sequences, FiniteSets, TLC

\* ------------------------------------------------------------------ bounds
\* Longest event log explored.
MaxEvents == 3

\* ------------------------------------------------------------ value types
\* Slug(String): an explicit alias and the tokens the generator can give.
Slugs == {"short", "aaaaaa", "aaaaab"}

\* Outcomes of thread_rng().sample_iter(&Alphanumeric).take(6): any string of
\* six alphanumeric characters; two of them stand for all.
RandomSlugs == {"aaaaaa", "aaaaab"}

\* Url(String), as its sequence of characters.
Urls == { <<>>,
          <<"h", "t", "t">>,
          <<"h", "t", "t", "p">>,
          <<"h", "t", "t", "p", "s">> }

\* Option<Slug>
None == <<>>
Some(s) == <<s>>
SlugOptions == {None} \cup {Some(s) : s \in Slugs}

\* enum Event
LinkCreated(slug, url) == [kind |-> "LinkCreated", slug |-> slug, url |-> url]
LinkAccessed(slug) == [kind |-> "LinkAccessed", slug |-> slug, url |-> <<>>]
UrlChanged(slug, new_url) == [kind |-> "UrlChanged", slug |-> slug, url |-> new_url]

\* struct ShortLink, struct Stats
ShortLink(slug, url) == [slug |-> slug, url |-> url]
Stats(link, redirects) == [link |-> link, redirects |-> redirects]

\* Result<T, ShortenerError>
NoValue == [none |-> TRUE]
Ok(v) == [ok |-> TRUE, val |-> v, err |-> "None"]
Err(e) == [ok |-> FALSE, val |-> NoValue, err |-> e]

\* ------------------------------------------------------------- the state
VARIABLES
    events,       \* UrlShortenerService.events
    last,         \* the last call made: its name, arguments, result and the log before it
    okRedirects,  \* per slug, the number of handle_redirect calls that returned Ok
    lastUrl,      \* per slug, the url of the last Ok create / change call
    pc,           \* per concurrent caller, its position in handle_create_short_link
    req,          \* per concurrent caller, the arguments of its call
    res,          \* per concurrent caller, the result of its call
    log0          \* the log when the concurrent callers were started

vars == <<events, last, okRedirects, lastUrl, pc, req, res, log0>>

\* ------------------------------------------------------------------ replay
\* str.starts_with(prefix)
StartsWith(s, prefix) ==
    /\ Len(s) >= Len(prefix)
    /\ SubSeq(s, 1, Len(prefix)) = prefix

Http == <<"h", "t", "t", "p">>

\* The negation of the rejection test of handle_create_short_link.
IsValidUrlNonEmpty(url) == url # <<>>
IsValidUrl(url) == ~(~StartsWith(url, Http) \/ url = <<>>)

\* Vec::push
RecordEventFront(ev, e) == <<e>> \o ev
RecordEventOverwrite(ev, e) == <<e>>
RecordEvent(ev, e) == Append(ev, e)

IsCreated(e) == e.kind = "LinkCreated"

\* First loop of replay: one ShortLink and one Stats{.., redirects: 0} per LinkCreated.
CreatedLinksLastOnly(ev) ==
    LET c == SelectSeq(ev, IsCreated)
    IN  IF c = <<>> THEN <<>>
        ELSE <<ShortLink(c[Len(c)].slug, c[Len(c)].url)>>
CreatedLinks(ev) ==
    LET c == SelectSeq(ev, IsCreated)
    IN  [i \in 1..Len(c) |-> ShortLink(c[i].slug, c[i].url)]

InitialStats(ev) ==
    LET c == SelectSeq(ev, IsCreated)
    IN  [i \in 1..Len(c) |-> Stats(ShortLink(c[i].slug, c[i].url), 0)]

\* iter().find(|link| link.slug == slug): index of the first match, 0 for None.
FindLinkAny(links, slug) == IF Len(links) > 0 THEN 1 ELSE 0
FindLink(links, slug) ==
    IF \E i \in 1..Len(links) : links[i].slug = slug
    THEN CHOOSE i \in 1..Len(links) :
            /\ links[i].slug = slug
            /\ \A j \in 1..(i - 1) : links[j].slug # slug
    ELSE 0

FindStatAny(stats, slug) == IF Len(stats) > 0 THEN 1 ELSE 0
FindStat(stats, slug) ==
    IF \E i \in 1..Len(stats) : stats[i].link.slug = slug
    THEN CHOOSE i \in 1..Len(stats) :
            /\ stats[i].link.slug = slug
            /\ \A j \in 1..(i - 1) : stats[j].link.slug # slug
    ELSE 0

\* Second loop of replay: every LinkAccessed adds 1 to the first matching stat.
RECURSIVE ApplyAccessedAll(_, _)
ApplyAccessedAll(stats, ev) ==
    IF ev = <<>> THEN stats
    ELSE ApplyAccessedAll(IF Head(ev).kind = "LinkAccessed"
                          THEN [i \in 1..Len(stats) |->
                                  [stats[i] EXCEPT !.redirects = @ + 1]]
                          ELSE stats,
                          Tail(ev))
RECURSIVE ApplyAccessed(_, _)
ApplyAccessed(stats, ev) ==
    IF ev = <<>> THEN stats
    ELSE LET e == Head(ev)
             i == IF e.kind = "LinkAccessed" THEN FindStat(stats, e.slug) ELSE 0
         IN  ApplyAccessed(IF i = 0 THEN stats
                           ELSE [stats EXCEPT ![i].redirects = @ + 1],
                           Tail(ev))

\* Third loop of replay: every UrlChanged overwrites the url of the first matching link.
ApplyChangedNone(links, ev) == links
RECURSIVE ApplyChangedFirstWins(_, _)
ApplyChangedFirstWins(links, ev) ==
    IF ev = <<>> THEN links
    ELSE LET e == ev[Len(ev)]
             i == IF e.kind = "UrlChanged" THEN FindLink(links, e.slug) ELSE 0
         IN  ApplyChangedFirstWins(IF i = 0 THEN links
                                   ELSE [links EXCEPT ![i].url = e.url],
                                   SubSeq(ev, 1, Len(ev) - 1))
RECURSIVE ApplyChanged(_, _)
ApplyChanged(links, ev) ==
    IF ev = <<>> THEN links
    ELSE LET e == Head(ev)
             i == IF e.kind = "UrlChanged" THEN FindLink(links, e.slug) ELSE 0
         IN  ApplyChanged(IF i = 0 THEN links
                          ELSE [links EXCEPT ![i].url = e.url],
                          Tail(ev))

\* replay(&self) -> (Vec<ShortLink>, Vec<Stats>)
Replay(ev) ==
    [links |-> ApplyChanged(CreatedLinks(ev), ev),
     stats |-> ApplyAccessed(InitialStats(ev), ev)]

\* links.iter().any(|link| link.slug == slug)
SlugInUseNever(links, slug) == FALSE
SlugInUse(links, slug) == \E i \in 1..Len(links) : links[i].slug = slug

\* --------------------------------------------------------------- handlers
\* Each handler gives the result returned and the log it leaves.
Outcome(result, ev) == [res |-> result, events |-> ev]

\* slug.unwrap_or_else(|| random slug)
UnwrapSlugAlwaysRandom(slug, rnd) == rnd
UnwrapSlug(slug, rnd) == IF slug = None THEN rnd ELSE slug[1]

\* handle_create_short_link up to the uniqueness check: the error it returns,
\* or the ShortLink it is about to record.
CreateCheckSlugFirst(ev, url, slug, rnd) ==
    LET s == UnwrapSlug(slug, rnd)
    IN  IF SlugInUse(Replay(ev).links, s) THEN Err("SlugAlreadyInUse")
        ELSE IF ~IsValidUrl(url) THEN Err("InvalidUrl")
        ELSE Ok(ShortLink(s, url))
CreateCheck(ev, url, slug, rnd) ==
    IF ~IsValidUrl(url) THEN Err("InvalidUrl")
    ELSE LET s == UnwrapSlug(slug, rnd)
         IN  IF SlugInUse(Replay(ev).links, s)
             THEN Err("SlugAlreadyInUse")
             ELSE Ok(ShortLink(s, url))

HandleCreateShortLink(ev, url, slug, rnd) ==
    LET r == CreateCheck(ev, url, slug, rnd)
    IN  IF r.ok
        THEN Outcome(r, RecordEvent(ev, LinkCreated(r.val.slug, r.val.url)))
        ELSE Outcome(r, ev)

HandleRedirectAlways(ev, slug) ==
    LET links == Replay(ev).links
        i == FindLink(links, slug)
    IN  IF i = 0 THEN Outcome(Err("SlugNotFound"), RecordEvent(ev, LinkAccessed(slug)))
        ELSE Outcome(Ok(links[i]), RecordEvent(ev, LinkAccessed(slug)))
HandleRedirect(ev, slug) ==
    LET links == Replay(ev).links
        i == FindLink(links, slug)
    IN  IF i = 0 THEN Outcome(Err("SlugNotFound"), ev)
        ELSE Outcome(Ok(links[i]), RecordEvent(ev, LinkAccessed(slug)))

HandleChangeCountsAccess(ev, slug, new_url) ==
    LET links == Replay(ev).links
        i == FindLink(links, slug)
    IN  IF i = 0 THEN Outcome(Err("SlugNotFound"), ev)
        ELSE Outcome(Ok([links[i] EXCEPT !.url = new_url]),
                     RecordEvent(ev, LinkAccessed(slug)))
HandleChangeValidated(ev, slug, new_url) ==
    LET links == Replay(ev).links
        i == FindLink(links, slug)
    IN  IF i = 0 THEN Outcome(Err("SlugNotFound"), ev)
        ELSE IF ~IsValidUrl(new_url) THEN Outcome(Err("InvalidUrl"), ev)
        ELSE Outcome(Ok([links[i] EXCEPT !.url = new_url]),
                     RecordEvent(ev, UrlChanged(slug, new_url)))
HandleChangeShortLink(ev, slug, new_url) ==
    LET links == Replay(ev).links
        i == FindLink(links, slug)
    IN  IF i = 0 THEN Outcome(Err("SlugNotFound"), ev)
        ELSE Outcome(Ok([links[i] EXCEPT !.url = new_url]),
                     RecordEvent(ev, UrlChanged(slug, new_url)))

GetStats(ev, slug) ==
    LET stats == Replay(ev).stats
        i == FindStat(stats, slug)
    IN  IF i = 0 THEN Err("SlugNotFound") ELSE Ok(stats[i])

\* ------------------------------------------------- one caller, call by call
Callers == {1, 2}

Call(op, slug, url, cand, result, before) ==
    [op |-> op, slug |-> slug, url |-> url, cand |-> cand, res |-> result, before |-> before]

NoCall == Call("none", None, <<>>, "", Err("None"), <<>>)

\* UrlShortenerService::new()
Init ==
    /\ events = <<>>
    /\ last = NoCall
    /\ okRedirects = [s \in Slugs |-> 0]
    /\ lastUrl = [s \in Slugs |-> None]
    /\ pc = [c \in Callers |-> "idle"]
    /\ req = [c \in Callers |-> [url |-> <<>>, slug |-> None, rnd |-> ""]]
    /\ res = [c \in Callers |-> Err("None")]
    /\ log0 = <<>>

CreateShortLink ==
    \E url \in Urls, slug \in SlugOptions, rnd \in RandomSlugs :
        LET o == HandleCreateShortLink(events, url, slug, rnd)
            s == UnwrapSlug(slug, rnd)
        IN  /\ Len(events) < MaxEvents
            /\ events' = o.events
            /\ last' = Call("create", slug, url, s, o.res, events)
            /\ lastUrl' = IF o.res.ok THEN [lastUrl EXCEPT ![s] = Some(url)] ELSE lastUrl
            /\ UNCHANGED <<okRedirects, pc, req, res, log0>>

Redirect ==
    \E slug \in Slugs :
        LET o == HandleRedirect(events, slug)
        IN  /\ Len(events) < MaxEvents
            /\ events' = o.events
            /\ last' = Call("redirect", Some(slug), <<>>, slug, o.res, events)
            /\ okRedirects' = IF o.res.ok THEN [okRedirects EXCEPT ![slug] = @ + 1]
                               ELSE okRedirects
            /\ UNCHANGED <<lastUrl, pc, req, res, log0>>

ChangeShortLink ==
    \E slug \in Slugs, new_url \in Urls :
        LET o == HandleChangeShortLink(events, slug, new_url)
        IN  /\ Len(events) < MaxEvents
            /\ events' = o.events
            /\ last' = Call("change", Some(slug), new_url, slug, o.res, events)
            /\ lastUrl' = IF o.res.ok THEN [lastUrl EXCEPT ![slug] = Some(new_url)]
                           ELSE lastUrl
            /\ UNCHANGED <<okRedirects, pc, req, res, log0>>

QueryStatsRecording ==
    \E slug \in Slugs :
        LET r == GetStats(events, slug)
        IN  /\ last' = Call("get_stats", Some(slug), <<>>, slug, r, events)
            /\ events' = IF r.ok /\ Len(events) < MaxEvents
                         THEN RecordEvent(events, LinkAccessed(slug))
                         ELSE events
            /\ UNCHANGED <<okRedirects, lastUrl, pc, req, res, log0>>
QueryStats ==
    \E slug \in Slugs :
        /\ last' = Call("get_stats", Some(slug), <<>>, slug, GetStats(events, slug), events)
        /\ UNCHANGED <<events, okRedirects, lastUrl, pc, req, res, log0>>

Next == CreateShortLink \/ Redirect \/ ChangeShortLink \/ QueryStats

Spec == Init /\ [][Next]_vars

\* ------------------------------------- two callers of one shared service
\* Logs the shared service can hold when the callers start.
InitialLogs == { <<>>, <<LinkCreated("short", Http)>> }

InitConc ==
    /\ events \in InitialLogs
    /\ log0 = events
    /\ last = NoCall
    /\ okRedirects = [s \in Slugs |-> 0]
    /\ lastUrl = [s \in Slugs |-> None]
    /\ pc = [c \in Callers |-> "idle"]
    /\ req = [c \in Callers |-> [url |-> <<>>, slug |-> None, rnd |-> ""]]
    /\ res = [c \in Callers |-> Err("None")]

\* handle_create_short_link takes &mut self: a caller runs it only while no
\* other caller is inside a method of the same service.
CanBorrowMutShared(c) == TRUE
CanBorrowMut(c) == \A d \in Callers \ {c} : pc[d] # "checked"

\* A caller issues handle_create_short_link(url, slug); both calls are issued
\* before either runs.
Invoke(c) ==
    \E url \in Urls, slug \in SlugOptions, rnd \in RandomSlugs :
        /\ pc[c] = "idle"
        /\ \A d \in Callers : pc[d] \in {"idle", "called"}
        /\ pc' = [pc EXCEPT ![c] = "called"]
        /\ req' = [req EXCEPT ![c] = [url |-> url, slug |-> slug, rnd |-> rnd]]
        /\ UNCHANGED <<events, last, okRedirects, lastUrl, res, log0>>

\* The call up to its uniqueness check: it returns the error, or goes on to
\* record the event.
Check(c) ==
    /\ pc[c] = "called"
    /\ CanBorrowMut(c)
    /\ LET r == CreateCheck(events, req[c].url, req[c].slug, req[c].rnd)
       IN  /\ res' = [res EXCEPT ![c] = r]
           /\ pc' = [pc EXCEPT ![c] = IF r.ok THEN "checked" ELSE "done"]
    /\ UNCHANGED <<events, last, okRedirects, lastUrl, req, log0>>

\* record_event and the return of Ok.
Record(c) ==
    /\ pc[c] = "checked"
    /\ events' = RecordEvent(events, LinkCreated(res[c].val.slug, res[c].val.url))
    /\ pc' = [pc EXCEPT ![c] = "done"]
    /\ UNCHANGED <<last, okRedirects, lastUrl, req, res, log0>>

NextConc == \E c \in Callers : Invoke(c) \/ Check(c) \/ Record(c)

SpecConc == InitConc /\ [][NextConc]_vars

\* ------------------------------------------------------------ properties
\* The log holds a LinkCreated event for the slug.
Active(ev, slug) ==
    \E i \in 1..Len(ev) : ev[i].kind = "LinkCreated" /\ ev[i].slug = slug

\* A url is valid when it is not empty and begins with "http".
ValidUrl(url) ==
    /\ url # <<>>
    /\ Len(url) >= 4
    /\ url[1] = "h" /\ url[2] = "t" /\ url[3] = "t" /\ url[4] = "p"

Commands == {"create", "redirect", "change"}

RedirectsOf(ev, slug) == GetStats(ev, slug).val.redirects

\* C1: the event log never holds more than one LinkCreated event for a slug.
C1_OneLinkCreatedPerSlug ==
    \A s \in Slugs :
        Cardinality({i \in 1..Len(events) :
                        events[i].kind = "LinkCreated" /\ events[i].slug = s}) <= 1

\* A create was attempted on a slug that already had its LinkCreated event.
C1_Witness ==
    /\ last.op = "create"
    /\ ValidUrl(last.url)
    /\ Active(last.before, last.cand)
    /\ Len(events) >= 2

\* C2: create(url, Some(slug)) with a valid url returns Err(SlugAlreadyInUse)
\* and leaves the log unchanged when the slug already has a LinkCreated event,
\* and returns Ok(ShortLink{slug, url}) of exactly its arguments otherwise.
C2_ExplicitSlugCreate ==
    (last.op = "create" /\ last.slug # None /\ ValidUrl(last.url)) =>
        IF Active(last.before, last.slug[1])
        THEN last.res = Err("SlugAlreadyInUse") /\ events = last.before
        ELSE last.res = Ok(ShortLink(last.slug[1], last.url))

\* Both branches: a create on a taken slug, after a create that took it.
C2_Witness ==
    /\ last.op = "create" /\ last.slug # None /\ ValidUrl(last.url)
    /\ Active(last.before, last.slug[1])
    /\ last.res = Err("SlugAlreadyInUse")
    /\ last.before # <<>>

\* C3: two concurrent creates with the same explicit slug, valid urls and a
\* slug not yet active: exactly one returns Ok, the other Err(SlugAlreadyInUse).
C3_ExactlyOneCreateWins ==
    \A c, d \in Callers :
        ( /\ c # d
          /\ pc[c] = "done" /\ pc[d] = "done"
          /\ req[c].slug # None /\ req[c].slug = req[d].slug
          /\ ValidUrl(req[c].url) /\ ValidUrl(req[d].url)
          /\ ~Active(log0, req[c].slug[1]) )
        => \/ res[c].ok /\ res[d] = Err("SlugAlreadyInUse")
           \/ res[d].ok /\ res[c] = Err("SlugAlreadyInUse")

\* Both callers have returned from a create on the same fresh slug.
C3_Witness ==
    /\ pc[1] = "done" /\ pc[2] = "done"
    /\ req[1].slug # None /\ req[1].slug = req[2].slug
    /\ ValidUrl(req[1].url) /\ ValidUrl(req[2].url)
    /\ ~Active(log0, req[1].slug[1])
    /\ res[2].ok /\ ~res[1].ok

\* C4: for an active slug get_stats(slug).redirects is the number of Ok
\* handle_redirect(slug) calls so far: 0 after creation, never smaller after a
\* call than before it, and one more after each Ok handle_redirect(slug).
C4_RedirectsCountOkRedirects ==
    /\ \A s \in Slugs :
          Active(events, s) =>
              /\ GetStats(events, s).ok
              /\ RedirectsOf(events, s) = okRedirects[s]
    /\ \A s \in Slugs :
          Active(last.before, s) =>
              /\ RedirectsOf(events, s) >= RedirectsOf(last.before, s)
              /\ (last.op = "redirect" /\ last.res.ok /\ last.cand = s) =>
                    RedirectsOf(events, s) = RedirectsOf(last.before, s) + 1
    /\ (last.op = "create" /\ last.res.ok) => RedirectsOf(events, last.res.val.slug) = 0

\* An Ok redirect on a slug, counted, with another slug active beside it.
C4_Witness ==
    /\ last.op = "redirect" /\ last.res.ok
    /\ okRedirects[last.cand] >= 1
    /\ RedirectsOf(events, last.cand) = okRedirects[last.cand]
    /\ \E t \in Slugs \ {last.cand} : Active(events, t)

\* C5: for an active slug get_stats(slug).link carries the url of the last Ok
\* change of the slug, or the creation url: the link handle_redirect returns.
C5_StatsLinkIsCurrent ==
    \A s \in Slugs :
        Active(events, s) =>
            /\ GetStats(events, s).ok
            /\ GetStats(events, s).val.link = ShortLink(s, lastUrl[s][1])
            /\ GetStats(events, s).val.link = HandleRedirect(events, s).res.val

C7_SlugNotFound ==
    (last.op \in {"redirect", "change", "get_stats"} /\ ~Active(last.before, last.cand)) =>
        /\ last.res = Err("SlugNotFound")
        /\ events = last.before

\* A change on an absent slug while another slug is active.
C7_Witness ==
    /\ last.op = "change"
    /\ ~Active(last.before, last.cand)
    /\ last.before # <<>>
    /\ last.res = Err("SlugNotFound")

\* C8: create with an empty url or one not beginning with "http" returns
\* Err(InvalidUrl) and leaves the log unchanged, whatever the slug argument.
C8_InvalidUrlRejected ==
    (last.op = "create" /\ ~ValidUrl(last.url)) =>
        /\ last.res = Err("InvalidUrl")
        /\ events = last.before

\* A create without slug and with a non-empty url that lacks the prefix.
C8_Witness ==
    /\ last.op = "create"
    /\ last.url = <<"h", "t", "t">>
    /\ last.slug = None
    /\ last.before # <<>>
    /\ last.res = Err("InvalidUrl")

\* The event an Ok command names.
EventOf(call) ==
    IF call.op = "create" THEN LinkCreated(call.res.val.slug, call.url)
    ELSE IF call.op = "redirect" THEN LinkAccessed(call.cand)
    ELSE UrlChanged(call.cand, call.url)

\* C9: an Ok command leaves the log one event longer, the event it names at
\* the end; an Err command leaves the log length unchanged.
C9_OneEventPerOkCommand ==
    (last.op \in Commands) =>
        IF last.res.ok
        THEN /\ Len(events) = Len(last.before) + 1
             /\ SubSeq(events, 1, Len(last.before)) = last.before
             /\ events[Len(events)] = EventOf(last)
             /\ (last.op = "create" /\ last.slug # None) =>
                    events[Len(events)].slug = last.slug[1]
        ELSE Len(events) = Len(last.before)

\* An Ok change appended to a log of two events.
C9_Witness ==
    /\ last.op = "change" /\ last.res.ok
    /\ Len(last.before) >= 2
    /\ events[Len(events)] = UrlChanged(last.cand, last.url)

\* C10: create(url, None) with a valid url never returns an error: it returns
\* Ok with a slug that was not active before.
C10_RandomSlugNeverCollides ==
    (last.op = "create" /\ last.slug = None /\ ValidUrl(last.url)) =>
        /\ last.res.ok
        /\ ~Active(last.before, last.res.val.slug)

\* C11: an Ok handle_change_short_link(slug, new_url) leaves
\* get_stats(slug).redirects as it was before the call.
C11_ChangeKeepsRedirects ==
    (last.op = "change" /\ last.res.ok) =>
        /\ GetStats(last.before, last.cand).ok
        /\ GetStats(events, last.cand).ok
        /\ RedirectsOf(events, last.cand) = RedirectsOf(last.before, last.cand)

\* An Ok change of a slug that has already been redirected.
C11_Witness ==
    /\ last.op = "change" /\ last.res.ok
    /\ okRedirects[last.cand] >= 1
    /\ RedirectsOf(events, last.cand) >= 1

\* C12: a slug for which create returned Ok stays active: in every later
\* state redirect, change and get_stats on it do not return SlugNotFound and
\* an explicit create on it returns an error.
C12_ActiveForever ==
    /\ \A s \in Slugs :
          lastUrl[s] # None =>
              /\ HandleRedirect(events, s).res.err # "SlugNotFound"
              /\ GetStats(events, s).err # "SlugNotFound"
              /\ \A u \in Urls :
                    /\ HandleChangeShortLink(events, s, u).res.err # "SlugNotFound"
                    /\ \A r \in RandomSlugs :
                          ~HandleCreateShortLink(events, u, Some(s), r).res.ok
    /\ (last.op \in {"redirect", "change", "get_stats"} /\ Active(last.before, last.cand)) =>
          last.res.err # "SlugNotFound"
    /\ (last.op = "create" /\ last.slug # None /\ Active(last.before, last.cand)) =>
          ~last.res.ok

\* A slug created first is still active after two more events, one of them
\* the creation of another slug.
C12_Witness ==
    /\ Len(events) >= 3
    /\ events[1].kind = "LinkCreated"
    /\ lastUrl[events[1].slug] # None
    /\ \E i \in 2..Len(events) :
          events[i].kind = "LinkCreated" /\ events[i].slug # events[1].slug
    /\ last.op = "redirect" /\ last.cand = events[1].slug /\ last.res.ok

\* C13: get_stats leaves the event log as it was, whether it returns Ok or
\* Err, so every command and query made after it returns what it would have
\* returned without it.
C13_GetStatsReadOnly ==
    (last.op = "get_stats") =>
        /\ events = last.before
        /\ \A s \in Slugs :
              /\ GetStats(events, s) = GetStats(last.before, s)
              /\ HandleRedirect(events, s) = HandleRedirect(last.before, s)
              /\ \A u \in Urls :
                    /\ HandleChangeShortLink(events, s, u)
                          = HandleChangeShortLink(last.before, s, u)
                    /\ \A o \in SlugOptions, r \in RandomSlugs :
                          HandleCreateShortLink(events, u, o, r)
                             = HandleCreateShortLink(last.before, u, o, r)

\* An Ok get_stats on a slug with a redirect counted, and an Err one beside it.
C13_Witness ==
    /\ last.op = "get_stats" /\ last.res.ok
    /\ last.res.val.redirects >= 1
    /\ \E t \in Slugs : ~GetStats(events, t).ok
    /\ Len(events) >= 2

\* C14: handle_change_short_link does not validate new_url: on an active slug
\* it returns Ok(ShortLink{slug, new_url}) and appends UrlChanged{slug, new_url}
\* for every new_url, so it never returns Err(InvalidUrl).
C14_ChangeNotValidated ==
    (last.op = "change") =>
        /\ last.res.err # "InvalidUrl"
        /\ Active(last.before, last.cand) =>
              /\ last.res = Ok(ShortLink(last.cand, last.url))
              /\ events = Append(last.before, UrlChanged(last.cand, last.url))

\* Ok changes to the empty url and to a url without the prefix.
C14_Witness ==
    /\ last.op = "change" /\ last.res.ok
    /\ last.url = <<>>
    /\ \E i \in 1..Len(last.before) :
          /\ last.before[i].kind = "UrlChanged"
          /\ last.before[i].url = <<"h", "t", "t">>

\* C15: the log is append-only: in every step the log before the step is a
\* prefix of the log after it.
C15_AppendOnly ==
    [][ /\ Len(events') >= Len(events)
        /\ SubSeq(events', 1, Len(events)) = events ]_vars

\* A log that has grown by an event of each kind.
C15_Witness ==
    /\ Len(events) >= 3
    /\ \E i, j, k \in 1..Len(events) :
          /\ events[i].kind = "LinkCreated"
          /\ events[j].kind = "LinkAccessed"
          /\ events[k].kind = "UrlChanged"
    /\ SubSeq(events, 1, Len(last.before)) = last.before

\* C16: every LinkAccessed and every UrlChanged event in the log has a
\* LinkCreated event of the same slug at an earlier position.
C16_CreatedFirst ==
    \A i \in 1..Len(events) :
        events[i].kind \in {"LinkAccessed", "UrlChanged"} =>
            \E j \in 1..(i - 1) :
                events[j].kind = "LinkCreated" /\ events[j].slug = events[i].slug

\* A log with a LinkAccessed and a UrlChanged event, while a slug is absent.
C16_Witness ==
    /\ \E i, k \in 2..Len(events) :
          /\ events[i].kind = "LinkAccessed"
          /\ events[k].kind = "UrlChanged"
    /\ \E t \in Slugs : ~Active(events, t)

\* The single-pass fold of the specification: the events applied one by one,
\* in append order, to a view that maps each slug to its ShortLink and to its
\* redirect count (None while the slug is absent).
EmptyView == [links |-> [s \in Slugs |-> None], redirects |-> [s \in Slugs |-> None]]

FoldStep(view, e) ==
    IF e.kind = "LinkCreated"
    THEN IF view.links[e.slug] = None
         THEN [links |-> [view.links EXCEPT ![e.slug] = Some(ShortLink(e.slug, e.url))],
               redirects |-> [view.redirects EXCEPT ![e.slug] = Some(0)]]
         ELSE view
    ELSE IF e.kind = "LinkAccessed"
    THEN IF view.redirects[e.slug] = None THEN view
         ELSE [view EXCEPT !.redirects[e.slug] = Some(@[1] + 1)]
    ELSE IF view.links[e.slug] = None THEN view
         ELSE [view EXCEPT !.links[e.slug] = Some(ShortLink(e.slug, e.url))]

RECURSIVE Fold(_, _)
Fold(view, ev) == IF ev = <<>> THEN view ELSE Fold(FoldStep(view, Head(ev)), Tail(ev))

\* The same two mappings, read from what replay returns.
ReplayView(ev) ==
    LET r == Replay(ev)
    IN  [links |-> [s \in Slugs |->
                      IF FindLink(r.links, s) = 0 THEN None
                      ELSE Some(r.links[FindLink(r.links, s)])],
         redirects |-> [s \in Slugs |->
                      IF FindStat(r.stats, s) = 0 THEN None
                      ELSE Some(r.stats[FindStat(r.stats, s)].redirects)]]

\* C17: on every reachable log the three passes of replay give the same
\* slug-to-ShortLink and slug-to-redirect-count mappings as the single-pass
\* fold in append order.
C17_ReplayIsFold == ReplayView(events) = Fold(EmptyView, events)

\* A log in which one slug was changed twice, to two different urls.
C17_Witness ==
    /\ \E i, j \in 1..Len(events) :
          /\ i < j
          /\ events[i].kind = "UrlChanged" /\ events[j].kind = "UrlChanged"
          /\ events[i].slug = events[j].slug
          /\ events[i].url # events[j].url
    /\ ReplayView(events).links # EmptyView.links

\* C19: an Ok redirect or change of one slug leaves what get_stats and
\* handle_redirect give for every other active slug (url and redirect count)
\* as it was.
C19_OtherSlugsUntouched ==
    (last.op \in {"redirect", "change"} /\ last.res.ok) =>
        \A t \in Slugs \ {last.cand} :
            Active(last.before, t) =>
                /\ GetStats(events, t) = GetStats(last.before, t)
                /\ HandleRedirect(events, t).res = HandleRedirect(last.before, t).res

\* An Ok redirect of one slug while another slug is active.
C19_Witness ==
    /\ last.op = "redirect" /\ last.res.ok
    /\ \E t \in Slugs \ {last.cand} :
          Active(last.before, t) /\ GetStats(events, t).ok

\* C20: create(url, Some(slug)) with an invalid url and an active slug returns
\* Err(InvalidUrl), not Err(SlugAlreadyInUse).
C20_InvalidUrlBeforeSlugInUse ==
    ( /\ last.op = "create" /\ last.slug # None
      /\ ~ValidUrl(last.url)
      /\ Active(last.before, last.cand) )
    => last.res = Err("InvalidUrl")

\* A create with a url lacking the prefix on a slug that is active.
C20_Witness ==
    /\ last.op = "create" /\ last.slug # None
    /\ last.url = <<"h", "t", "t">>
    /\ Active(last.before, last.slug[1])
    /\ last.res.err = "InvalidUrl"

====
